---- MODULE Spec2Model ----
(***************************************************************************)
(* EventDock webhook-health-action (src/src/index.js).                     *)
(*                                                                         *)
(* One run of the action: read inputs, GET /v1/health under a timer, read  *)
(* the body, classify, set the outputs, render the report, upsert the pull *)
(* request comment, write the job summary, apply the threshold gate.       *)
(* Every await of the source is a step boundary; the code between two      *)
(* awaits is one action.                                                   *)
(*                                                                         *)
(* Numbers: a success rate is an integer count of thousandths of a percent *)
(* (99.5 is 99500), so that toFixed(2) is a real rounding; an absent or    *)
(* null JSON field is Missing.                                             *)
(***************************************************************************)
EXTENDS Integers, Sequences, FiniteSets, TLC

VARIABLES
    pc,         \* run -> position in run()
    inputs,     \* run -> the values core.getInput returns
    context,    \* run -> github.context.payload: "pull_request" or "push"
    timer,      \* run -> state of the setTimeout of fetchWithTimeout
    elapsed,    \* run -> ms the health call has been in flight (0 when none is)
    response,   \* run -> the Response fetch resolved with
    stats,      \* run -> the parsed HealthSnapshot
    outputs,    \* run -> output key -> <<>> (unset) or <<value>>
    failed,     \* run -> the core.setFailed message, or NotFailed
    warnings,   \* run -> the core.warning messages
    botComment, \* run -> id of the comment found by the listing, 0 when none
    apiCalls,   \* run -> the comment API calls issued so far
    comments    \* the pull request's comments, in creation order

vars == <<pc, inputs, context, timer, elapsed, response, stats, outputs,
          failed, warnings, botComment, apiCalls, comments>>

Runs == {1, 2}

(***************************************************************************)
(* Bounds of the exploration.                                              *)
(***************************************************************************)
MaxComments == 3
MaxElapsed == 40000

TickSteps == {10000}

(***************************************************************************)
(* Values.                                                                 *)
(***************************************************************************)
Missing == -1

timeout == 30000

MARKER == "EventDock Webhook Health Report"

OutputKeys == {"status", "success-rate", "total-events", "delivered-events",
               "failed-events", "dlq-count", "endpoints-checked", "report"}

NoOutputs == [k \in OutputKeys |-> <<>>]

NotFailed == [prefix |-> "", error |-> "", status |-> 0, body |-> "",
              rate |-> [whole |-> 0, frac |-> 0], threshold |-> 0]

NoResponse == [ok |-> FALSE, status |-> 0, text |-> ""]

NoStats == [total_events |-> Missing, delivered_events |-> Missing,
            failed_events |-> Missing, dlq_count |-> Missing,
            success_rate |-> Missing, endpoints_count |-> Missing,
            endpoints_given |-> FALSE, endpoints |-> <<>>]

NoInputs == [apiKey |-> "", failOnUnhealthy |-> "", failThreshold |-> "",
             postComment |-> "", githubToken |-> ""]

(***************************************************************************)
(* Number formatting.                                                      *)
(***************************************************************************)
\* Number.prototype.toFixed(2) of a rate: round to hundredths, two decimals.
toFixed(x) ==
    LET h == (x + 5) \div 10
    IN  [whole |-> h \div 100, frac |-> h % 100]

\* Number.prototype.toLocaleString() of a count: groups of three digits.
toLocaleString(n) ==
    IF n < 1000 THEN <<n>> ELSE <<n \div 1000, n % 1000>>

\* The threshold with '95' as the default.
parseFloat_Default95(s) ==
    CASE s = "" -> 95000
      [] s = "90" -> 90000
      [] s = "95" -> 95000
      [] OTHER -> Missing

\* parseFloat(core.getInput('fail-threshold') || '90'), in thousandths.
parseFloat(s) ==
    CASE s = "" -> 90000
      [] s = "90" -> 90000
      [] s = "95" -> 95000
      [] OTHER -> Missing

(***************************************************************************)
(* determineStatus, getStatusEmoji.                                        *)
(***************************************************************************)
\* determineStatus without the DLQ clause.
determineStatus_IgnoreDlq(successRate, dlqCount) ==
    IF successRate # Missing /\ successRate >= 99000
    THEN "healthy"
    ELSE IF successRate # Missing /\ successRate >= 90000
         THEN "degraded"
         ELSE "unhealthy"

\* A comparison with undefined or null on the left is false for >= 90, >= 99.
determineStatus(successRate, dlqCount) ==
    IF successRate # Missing /\ successRate >= 99000
       /\ dlqCount # Missing /\ dlqCount = 0
    THEN "healthy"
    ELSE IF successRate # Missing /\ successRate >= 90000
         THEN "degraded"
         ELSE "unhealthy"

getStatusEmoji(status) ==
    CASE status = "healthy" -> ":white_check_mark:"
      [] status = "degraded" -> ":warning:"
      [] status = "unhealthy" -> ":x:"
      [] OTHER -> ":question:"

toUpperCase(status) ==
    CASE status = "healthy" -> "HEALTHY"
      [] status = "degraded" -> "DEGRADED"
      [] status = "unhealthy" -> "UNHEALTHY"
      [] OTHER -> status

(***************************************************************************)
(* generateReport.                                                         *)
(***************************************************************************)
\* The cell without the `|| 'N/A'` default.
EndpointRateCell_NoDefault(ep) ==
    [na |-> FALSE, fixed |-> toFixed(ep.success_rate)]

\* The cell `${ep.success_rate?.toFixed(2) || 'N/A'}%` of one endpoint row.
EndpointRateCell(ep) ==
    IF ep.success_rate = Missing
    THEN [na |-> TRUE, fixed |-> [whole |-> 0, frac |-> 0]]
    ELSE [na |-> FALSE, fixed |-> toFixed(ep.success_rate)]

EndpointRow(ep) ==
    [name |-> ep.name, provider |-> ep.provider,
     emoji |-> IF ep.status = "active" THEN ":green_circle:" ELSE ":yellow_circle:",
     status |-> ep.status, rate |-> EndpointRateCell(ep)]

\* The fields generateReport calls a method on: absent, the call throws.
ReportThrows(s) ==
    \/ s.total_events = Missing
    \/ s.delivered_events = Missing
    \/ s.failed_events = Missing
    \/ s.success_rate = Missing
    \/ s.dlq_count = Missing

\* The report of a snapshot on which generateReport does not throw.
generateReport(s) ==
    LET status == determineStatus(s.success_rate, s.dlq_count)
    IN  [heading |-> <<"##", getStatusEmoji(status), MARKER>>,
         status |-> toUpperCase(status),
         total |-> toLocaleString(s.total_events),
         delivered |-> toLocaleString(s.delivered_events),
         failedEvents |-> toLocaleString(s.failed_events),
         rate |-> toFixed(s.success_rate),
         dlq |-> toLocaleString(s.dlq_count),
         endpointsCount |-> s.endpoints_count,
         table |-> IF s.endpoints_given /\ Len(s.endpoints) > 0
                   THEN [i \in 1..Len(s.endpoints) |-> EndpointRow(s.endpoints[i])]
                   ELSE <<>>]

\* includes with a marker the report's heading does not carry.
includes_OtherMarker(body, marker) ==
    \E i \in DOMAIN body.heading : body.heading[i] = "Webhook Health Report"

\* comment.body.includes('EventDock Webhook Health Report')
includes(body, marker) ==
    \E i \in DOMAIN body.heading : body.heading[i] = marker

(***************************************************************************)
(* The environment: what the host, the health API and the pull request's   *)
(* other authors may supply.                                               *)
(***************************************************************************)
InputSpace ==
    [apiKey : {"", "key"}, failOnUnhealthy : {"true", "false"},
     failThreshold : {"", "95"}, postComment : {"true", "false"},
     githubToken : {"", "token"}]

Contexts == {"pull_request", "push"}

Responses == {[ok |-> TRUE, status |-> 200, text |-> ""],
              [ok |-> FALSE, status |-> 500, text |-> ""]}

ErrorBodies == {"internal error"}

Rates == {Missing, 80000, 89996, 92000, 100000}

DlqCounts == {0, 3}

SomeEndpoints ==
    << [name |-> "Stripe", provider |-> "stripe", status |-> "active",
        success_rate |-> 99500],
       [name |-> "Slack", provider |-> "slack", status |-> "paused",
        success_rate |-> Missing] >>

Snapshot(total, dlq, rate, eps) ==
    [total_events |-> total, delivered_events |-> 995, failed_events |-> 5,
     dlq_count |-> dlq, success_rate |-> rate, endpoints_count |-> 2,
     endpoints_given |-> eps, endpoints |-> IF eps THEN SomeEndpoints ELSE <<>>]

\* The bodies a 2xx response may carry: every rate with every DLQ count, and
\* bodies that lack endpoints, total_events or dlq_count.
Snapshots ==
    { Snapshot(1000, d, r, TRUE) : d \in DlqCounts, r \in Rates }
    \cup { Snapshot(1000, 0, 100000, FALSE),
           Snapshot(Missing, 3, 80000, TRUE),
           Snapshot(1000, Missing, 100000, TRUE) }

\* A comment some other author leaves on the pull request.
UnrelatedBody == [heading |-> <<"LGTM">>]

(***************************************************************************)
(* Failure messages.                                                       *)
(***************************************************************************)
\* core.setFailed(`Action failed: ${error.message}`)
ActionFailed(message) ==
    [NotFailed EXCEPT !.prefix = "Action failed: ", !.error = message]

\* The API error without the status code and the body.
ApiRequestFailed_Bare(status, text) ==
    [NotFailed EXCEPT !.prefix = "Action failed: ",
                      !.error = "API request failed: "]

\* new Error(`API request failed: ${response.status} - ${text}`)
ApiRequestFailed(status, text) ==
    [NotFailed EXCEPT !.prefix = "Action failed: ",
                      !.error = "API request failed: ",
                      !.status = status, !.body = text]

\* `Webhook health check failed: success rate ${rate.toFixed(2)}% is below
\* threshold ${failThreshold}%`
BelowThreshold(rate, failThreshold) ==
    [NotFailed EXCEPT !.prefix = "Webhook health check failed: ",
                      !.error = "is below threshold",
                      !.rate = toFixed(rate), !.threshold = failThreshold]

(***************************************************************************)
(* Initial state: no run has started, the pull request has no comment.     *)
(***************************************************************************)
Init ==
    /\ pc = [r \in Runs |-> "idle"]
    /\ inputs = [r \in Runs |-> NoInputs]
    /\ context = [r \in Runs |-> "push"]
    /\ timer = [r \in Runs |-> "unset"]
    /\ elapsed = [r \in Runs |-> 0]
    /\ response = [r \in Runs |-> NoResponse]
    /\ stats = [r \in Runs |-> NoStats]
    /\ outputs = [r \in Runs |-> NoOutputs]
    /\ failed = [r \in Runs |-> NotFailed]
    /\ warnings = [r \in Runs |-> {}]
    /\ botComment = [r \in Runs |-> 0]
    /\ apiCalls = [r \in Runs |-> <<>>]
    /\ comments = <<>>

(***************************************************************************)
(* run(), lines 137-151: read the inputs, issue the health request.        *)
(***************************************************************************)
\* fetchWithTimeout's setTimeout / clearTimeout.
ArmTimer(r) == timer' = [timer EXCEPT ![r] = "armed"]

ClearTimer(r) == timer' = [timer EXCEPT ![r] = "cleared"]

\* The catch of run(): core.setFailed, and run() returns.
Catch(r, message) ==
    /\ failed' = [failed EXCEPT ![r] = message]
    /\ pc' = [pc EXCEPT ![r] = "done"]

\* run() up to `await fetch(...)`.  getInput('api-key', {required: true})
\* throws when the input is empty.
BeginWith(r, I, C) ==
    /\ pc[r] = "idle"
    /\ \E in \in I, ctx \in C :
        /\ inputs' = [inputs EXCEPT ![r] = in]
        /\ context' = [context EXCEPT ![r] = ctx]
        /\ IF in.apiKey = ""
           THEN /\ Catch(r, ActionFailed("Input required and not supplied: api-key"))
                /\ UNCHANGED timer
           ELSE /\ ArmTimer(r)
                /\ pc' = [pc EXCEPT ![r] = "fetch"]
                /\ UNCHANGED failed
    /\ UNCHANGED <<elapsed, response, stats, outputs, warnings, botComment,
                   apiCalls, comments>>

Begin(r) == BeginWith(r, InputSpace, Contexts)

\* One run at a time: the step is started when no other run is under way.
Start(r) ==
    /\ \A q \in Runs \ {r} : pc[q] = "idle"
    /\ Begin(r)

\* Time passes while the health call is in flight.  An armed timer fires at
\* its deadline: time does not pass it by.
Tick(r) ==
    /\ pc[r] \in {"fetch", "body"}
    /\ \E d \in TickSteps :
        /\ elapsed[r] + d <= MaxElapsed
        /\ timer[r] = "armed" => elapsed[r] + d <= timeout
        /\ elapsed' = [elapsed EXCEPT ![r] = elapsed[r] + d]
    /\ UNCHANGED <<pc, inputs, context, timer, response, stats, outputs, failed,
                   warnings, botComment, apiCalls, comments>>

\* fetch resolves with the response's status line and headers; the finally
\* of fetchWithTimeout clears the timer.
FetchResolve(r) ==
    /\ pc[r] = "fetch"
    /\ \E resp \in Responses : response' = [response EXCEPT ![r] = resp]
    /\ ClearTimer(r)
    /\ pc' = [pc EXCEPT ![r] = "body"]
    /\ UNCHANGED <<inputs, context, elapsed, stats, outputs, failed, warnings,
                   botComment, apiCalls, comments>>

\* fetch rejects (DNS, connection refused, reset).
FetchReject(r) ==
    /\ pc[r] = "fetch"
    /\ ClearTimer(r)
    /\ Catch(r, ActionFailed("fetch failed"))
    /\ elapsed' = [elapsed EXCEPT ![r] = 0]
    /\ UNCHANGED <<inputs, context, response, stats, outputs, warnings,
                   botComment, apiCalls, comments>>

\* The timer fires: controller.abort() rejects the pending fetch with an
\* AbortError.
TimerFire(r) ==
    /\ timer[r] = "armed"
    /\ elapsed[r] >= timeout
    /\ timer' = [timer EXCEPT ![r] = "fired"]
    /\ Catch(r, ActionFailed("This operation was aborted"))
    /\ elapsed' = [elapsed EXCEPT ![r] = 0]
    /\ UNCHANGED <<inputs, context, response, stats, outputs, warnings,
                   botComment, apiCalls, comments>>

(***************************************************************************)
(* run(), lines 153-181: classify, set the outputs, render, start to       *)
(* publish.  No await separates them: one step.                            *)
(***************************************************************************)
\* The outputs after lines 162-168.
SevenOutputs(s) ==
    [k \in OutputKeys |->
        CASE k = "status" -> <<determineStatus(s.success_rate, s.dlq_count)>>
          [] k = "success-rate" -> <<toFixed(s.success_rate)>>
          [] k = "total-events" -> <<s.total_events>>
          [] k = "delivered-events" -> <<s.delivered_events>>
          [] k = "failed-events" -> <<s.failed_events>>
          [] k = "dlq-count" -> <<s.dlq_count>>
          [] k = "endpoints-checked" -> <<s.endpoints_count>>
          [] OTHER -> <<>>]

\* The outputs after line 172.
EightOutputs(s) ==
    [SevenOutputs(s) EXCEPT !["report"] = <<generateReport(s)>>]

\* postPRComment without the pull_request test of line 95.
BeginPublish_AnyContext(r) ==
    IF inputs[r].postComment = "true"
    THEN IF inputs[r].githubToken = ""
         THEN /\ warnings' = [warnings EXCEPT ![r] =
                    @ \cup {"github-token is required to post PR comments"}]
              /\ pc' = [pc EXCEPT ![r] = "summary"]
              /\ UNCHANGED apiCalls
         ELSE /\ apiCalls' = [apiCalls EXCEPT ![r] = Append(@, "listComments")]
              /\ pc' = [pc EXCEPT ![r] = "list"]
              /\ UNCHANGED warnings
    ELSE /\ pc' = [pc EXCEPT ![r] = "summary"]
         /\ UNCHANGED <<warnings, apiCalls>>

\* Lines 174-181 calling postPRComment with an empty token, no warning.
BeginPublish_NoTokenTest(r) ==
    IF inputs[r].postComment = "true"
    THEN IF context[r] # "pull_request"
         THEN /\ pc' = [pc EXCEPT ![r] = "summary"]
              /\ UNCHANGED <<warnings, apiCalls>>
         ELSE /\ apiCalls' = [apiCalls EXCEPT ![r] = Append(@, "listComments")]
              /\ pc' = [pc EXCEPT ![r] = "list"]
              /\ UNCHANGED warnings
    ELSE /\ pc' = [pc EXCEPT ![r] = "summary"]
         /\ UNCHANGED <<warnings, apiCalls>>

\* Lines 174-181 and postPRComment up to its first await.
BeginPublish(r) ==
    IF inputs[r].postComment = "true"
    THEN IF inputs[r].githubToken = ""
         THEN /\ warnings' = [warnings EXCEPT ![r] =
                    @ \cup {"github-token is required to post PR comments"}]
              /\ pc' = [pc EXCEPT ![r] = "summary"]
              /\ UNCHANGED apiCalls
         ELSE IF context[r] # "pull_request"
              THEN /\ pc' = [pc EXCEPT ![r] = "summary"]
                   /\ UNCHANGED <<warnings, apiCalls>>
              ELSE /\ apiCalls' = [apiCalls EXCEPT ![r] = Append(@, "listComments")]
                   /\ pc' = [pc EXCEPT ![r] = "list"]
                   /\ UNCHANGED warnings
    ELSE /\ pc' = [pc EXCEPT ![r] = "summary"]
         /\ UNCHANGED <<warnings, apiCalls>>

\* run() with the outputs left for after postPRComment.
Evaluate_OutputsLate(r, s) ==
    IF s.success_rate = Missing
    THEN /\ Catch(r, ActionFailed("Cannot read properties of undefined"))
         /\ UNCHANGED <<outputs, warnings, apiCalls>>
    ELSE IF ReportThrows(s)
         THEN /\ outputs' = [outputs EXCEPT ![r] = SevenOutputs(s)]
              /\ Catch(r, ActionFailed("Cannot read properties of undefined"))
              /\ UNCHANGED <<warnings, apiCalls>>
         ELSE /\ BeginPublish(r)
              /\ UNCHANGED <<outputs, failed>>

\* Lines 154-181 on the snapshot s.  stats.success_rate.toFixed(2) (line 157)
\* throws on an absent rate before any output is set; generateReport (line
\* 171) throws on an absent count after seven are.
Evaluate(r, s) ==
    IF s.success_rate = Missing
    THEN /\ Catch(r, ActionFailed("Cannot read properties of undefined"))
         /\ UNCHANGED <<outputs, warnings, apiCalls>>
    ELSE IF ReportThrows(s)
         THEN /\ outputs' = [outputs EXCEPT ![r] = SevenOutputs(s)]
              /\ Catch(r, ActionFailed("Cannot read properties of undefined"))
              /\ UNCHANGED <<warnings, apiCalls>>
         ELSE /\ outputs' = [outputs EXCEPT ![r] = EightOutputs(s)]
              /\ BeginPublish(r)
              /\ UNCHANGED failed

\* response.text() or response.json() resolves (lines 32-37); a 2xx body
\* parses to one of the snapshots of S.
BodyArriveFrom(r, S) ==
    /\ pc[r] = "body"
    /\ IF response[r].ok
       THEN \E s \in S :
                /\ stats' = [stats EXCEPT ![r] = s]
                /\ Evaluate(r, s)
                /\ UNCHANGED response
       ELSE \E text \in ErrorBodies :
                /\ response' = [response EXCEPT ![r].text = text]
                /\ Catch(r, ApiRequestFailed(response[r].status, text))
                /\ UNCHANGED <<stats, outputs, warnings, apiCalls>>
    /\ elapsed' = [elapsed EXCEPT ![r] = 0]
    /\ UNCHANGED <<inputs, context, timer, botComment, comments>>

BodyArrive(r) == BodyArriveFrom(r, Snapshots)

\* response.text() or response.json() rejects: the body stream breaks, or a
\* 2xx body is no JSON.
BodyReject(r) ==
    /\ pc[r] = "body"
    /\ \E e \in {"terminated", "Unexpected token in JSON"} :
        /\ e = "Unexpected token in JSON" => response[r].ok
        /\ Catch(r, ActionFailed(e))
    /\ elapsed' = [elapsed EXCEPT ![r] = 0]
    /\ UNCHANGED <<inputs, context, timer, response, stats, outputs, warnings,
                   botComment, apiCalls, comments>>

(***************************************************************************)
(* postPRComment, lines 104-131.                                           *)
(***************************************************************************)
\* find returning the last match.
find_Last(list) ==
    LET hits == {i \in 1..Len(list) : includes(list[i].body, MARKER)}
    IN  IF hits = {} THEN 0
        ELSE CHOOSE i \in hits : \A j \in hits : i >= j

\* comments.find(comment => comment.body.includes(MARKER)): the index of the
\* first match, 0 when there is none.
find(list) ==
    LET hits == {i \in 1..Len(list) : includes(list[i].body, MARKER)}
    IN  IF hits = {} THEN 0
        ELSE CHOOSE i \in hits : \A j \in hits : i <= j

\* listComments resolves; the update or the create is issued.
ListResolve(r) ==
    /\ pc[r] = "list"
    /\ LET i == find(comments)
       IN  IF i # 0
           THEN /\ botComment' = [botComment EXCEPT ![r] = comments[i].id]
                /\ apiCalls' = [apiCalls EXCEPT ![r] = Append(@, "updateComment")]
                /\ pc' = [pc EXCEPT ![r] = "update"]
           ELSE /\ botComment' = [botComment EXCEPT ![r] = 0]
                /\ apiCalls' = [apiCalls EXCEPT ![r] = Append(@, "createComment")]
                /\ pc' = [pc EXCEPT ![r] = "create"]
    /\ UNCHANGED <<inputs, context, timer, elapsed, response, stats, outputs,
                   failed, warnings, comments>>

\* updateComment({comment_id, body: report}) takes effect and resolves.
UpdateResolve(r) ==
    /\ pc[r] = "update"
    /\ comments' = [i \in 1..Len(comments) |->
                       IF comments[i].id = botComment[r]
                       THEN [comments[i] EXCEPT !.body = generateReport(stats[r])]
                       ELSE comments[i]]
    /\ pc' = [pc EXCEPT ![r] = "summary"]
    /\ UNCHANGED <<inputs, context, timer, elapsed, response, stats, outputs,
                   failed, warnings, botComment, apiCalls>>

\* createComment({issue_number, body: report}) takes effect and resolves.
CreateResolve(r) ==
    /\ pc[r] = "create"
    /\ Len(comments) < MaxComments
    /\ comments' = Append(comments, [id |-> Len(comments) + 1,
                                     body |-> generateReport(stats[r])])
    /\ pc' = [pc EXCEPT ![r] = "summary"]
    /\ UNCHANGED <<inputs, context, timer, elapsed, response, stats, outputs,
                   failed, warnings, botComment, apiCalls>>

\* A failure handler that takes the outputs back.
PublishReject_DropsOutputs(r) ==
    /\ pc[r] \in {"list", "update", "create"}
    /\ Catch(r, ActionFailed("HttpError"))
    /\ outputs' = [outputs EXCEPT ![r] = NoOutputs]
    /\ UNCHANGED <<inputs, context, timer, elapsed, response, stats,
                   warnings, botComment, apiCalls, comments>>

\* A comment API call rejects (network, 403, 404): nothing in postPRComment
\* or around its call catches it before the catch of run().
PublishReject(r) ==
    /\ pc[r] \in {"list", "update", "create"}
    /\ Catch(r, ActionFailed("HttpError"))
    /\ UNCHANGED <<inputs, context, timer, elapsed, response, stats, outputs,
                   warnings, botComment, apiCalls, comments>>

(***************************************************************************)
(* run(), lines 183-206: job summary, threshold gate.                      *)
(***************************************************************************)
\* core.summary...write() settles; a rejection is caught on line 198.  Then
\* the gate of lines 204-206.
Summary(r) ==
    /\ pc[r] = "summary"
    /\ IF inputs[r].failOnUnhealthy = "true"
          /\ stats[r].success_rate < parseFloat(inputs[r].failThreshold)
       THEN failed' = [failed EXCEPT ![r] =
                BelowThreshold(stats[r].success_rate,
                               parseFloat(inputs[r].failThreshold))]
       ELSE UNCHANGED failed
    /\ pc' = [pc EXCEPT ![r] = "done"]
    /\ UNCHANGED <<inputs, context, timer, elapsed, response, stats, outputs,
                   warnings, botComment, apiCalls, comments>>

\* The process of a finished run ends; its slot is free for the next run.
Exit(r) ==
    /\ pc[r] = "done"
    /\ pc' = [pc EXCEPT ![r] = "idle"]
    /\ inputs' = [inputs EXCEPT ![r] = NoInputs]
    /\ context' = [context EXCEPT ![r] = "push"]
    /\ timer' = [timer EXCEPT ![r] = "unset"]
    /\ elapsed' = [elapsed EXCEPT ![r] = 0]
    /\ response' = [response EXCEPT ![r] = NoResponse]
    /\ stats' = [stats EXCEPT ![r] = NoStats]
    /\ outputs' = [outputs EXCEPT ![r] = NoOutputs]
    /\ failed' = [failed EXCEPT ![r] = NotFailed]
    /\ warnings' = [warnings EXCEPT ![r] = {}]
    /\ botComment' = [botComment EXCEPT ![r] = 0]
    /\ apiCalls' = [apiCalls EXCEPT ![r] = <<>>]
    /\ UNCHANGED comments

\* Somebody else comments on the pull request.
AddComment ==
    /\ Len(comments) < MaxComments
    /\ comments' = Append(comments, [id |-> Len(comments) + 1,
                                     body |-> UnrelatedBody])
    /\ UNCHANGED <<pc, inputs, context, timer, elapsed, response, stats,
                   outputs, failed, warnings, botComment, apiCalls>>

\* Somebody else quotes the report's heading in a comment of their own.
QuoteBody == [heading |-> <<">", MARKER>>]

AddQuote ==
    /\ Len(comments) < MaxComments
    /\ comments' = Append(comments, [id |-> Len(comments) + 1,
                                     body |-> QuoteBody])
    /\ UNCHANGED <<pc, inputs, context, timer, elapsed, response, stats,
                   outputs, failed, warnings, botComment, apiCalls>>

Step(r) ==
    \/ Tick(r)
    \/ FetchResolve(r)
    \/ FetchReject(r)
    \/ TimerFire(r)
    \/ BodyArrive(r)
    \/ BodyReject(r)
    \/ ListResolve(r)
    \/ UpdateResolve(r)
    \/ CreateResolve(r)
    \/ PublishReject(r)
    \/ Summary(r)
    \/ Exit(r)

Next ==
    \/ \E r \in Runs : Start(r)
    \/ \E r \in Runs : Step(r)
    \/ AddComment

Spec == Init /\ [][Next]_vars

(***************************************************************************)
(* The publisher among comments that quote the heading: runs one after     *)
(* another on a pull request, each with a key, a token and post-comment on.*)
(***************************************************************************)
PublishingInputs ==
    { in \in InputSpace : /\ in.apiKey = "key"
                          /\ in.postComment = "true"
                          /\ in.githubToken = "token"
                          /\ in.failOnUnhealthy = "false"
                          /\ in.failThreshold = "" }

UpsertStart(r) ==
    /\ \A q \in Runs \ {r} : pc[q] = "idle"
    /\ BeginWith(r, PublishingInputs, {"pull_request"})

UpsertNext ==
    \/ \E r \in Runs : UpsertStart(r)
    \/ \E r \in Runs : Step(r)
    \/ AddComment
    \/ AddQuote

UpsertSpec == Init /\ [][UpsertNext]_vars

(***************************************************************************)
(* Two runs at once on one pull request (two workflow runs triggered close *)
(* together): a run may start whatever the other is doing.  Each has a     *)
(* key, a token and post-comment on; the health API answers with one of    *)
(* two snapshots; the requests settle before their deadline.               *)
(***************************************************************************)
RaceSnapshots ==
    { Snapshot(1000, 0, 100000, TRUE), Snapshot(1000, 3, 80000, TRUE) }

RaceStart(r) == BeginWith(r, PublishingInputs, {"pull_request"})

RaceBodyArrive(r) == BodyArriveFrom(r, RaceSnapshots)

RaceStep(r) ==
    \/ FetchResolve(r)
    \/ FetchReject(r)
    \/ RaceBodyArrive(r)
    \/ BodyReject(r)
    \/ ListResolve(r)
    \/ UpdateResolve(r)
    \/ CreateResolve(r)
    \/ PublishReject(r)
    \/ Summary(r)
    \/ Exit(r)

RaceNext ==
    \/ \E r \in Runs : RaceStart(r)
    \/ \E r \in Runs : RaceStep(r)
    \/ AddComment

RaceSpec == Init /\ [][RaceNext]_vars

(***************************************************************************)
(* The classifier on its own: a 2xx response has arrived for run 1, and    *)
(* its body is any snapshot of a grid of rates and DLQ counts.             *)
(***************************************************************************)
ClassifyRates == {0, 50000, 89990, 89999, 90000, 90001, 95000, 98999, 99000,
                  99001, 99500, 100000}

ClassifyDlqCounts == {0, 1, 3, 10}

ClassifySnapshots ==
    { Snapshot(1000, d, r, FALSE) : d \in ClassifyDlqCounts, r \in ClassifyRates }

ClassifyInit ==
    /\ pc = [r \in Runs |-> IF r = 1 THEN "body" ELSE "idle"]
    /\ inputs \in { [r \in Runs |-> IF r = 1 THEN in ELSE NoInputs] :
                    in \in { i \in InputSpace : /\ i.apiKey = "key"
                                                /\ i.postComment = "false"
                                                /\ i.githubToken = "" } }
    /\ context = [r \in Runs |-> "push"]
    /\ timer = [r \in Runs |-> IF r = 1 THEN "cleared" ELSE "unset"]
    /\ elapsed = [r \in Runs |-> 0]
    /\ response = [r \in Runs |-> IF r = 1
                                  THEN [ok |-> TRUE, status |-> 200, text |-> ""]
                                  ELSE NoResponse]
    /\ stats = [r \in Runs |-> NoStats]
    /\ outputs = [r \in Runs |-> NoOutputs]
    /\ failed = [r \in Runs |-> NotFailed]
    /\ warnings = [r \in Runs |-> {}]
    /\ botComment = [r \in Runs |-> 0]
    /\ apiCalls = [r \in Runs |-> <<>>]
    /\ comments = <<>>

Classify == BodyArriveFrom(1, ClassifySnapshots)

ClassifyNext ==
    \/ Classify
    \/ Summary(1)

ClassifySpec == ClassifyInit /\ [][ClassifyNext]_vars

(***************************************************************************)
(* The renderer on its own: a 2xx response has arrived for run 1, and its  *)
(* body is a snapshot with any subset of its fields absent or null, the    *)
(* endpoints absent, empty or two (one of them without a success_rate).    *)
(* NoStats is kept apart: it stands for "no snapshot parsed".              *)
(***************************************************************************)
RenderSnapshots ==
    { s \in [total_events : {Missing, 1000},
             delivered_events : {Missing, 995},
             failed_events : {Missing, 5},
             dlq_count : {Missing, 0, 3},
             success_rate : {Missing, 80000, 99500},
             endpoints_count : {Missing, 2},
             endpoints_given : BOOLEAN,
             endpoints : {<<>>, SomeEndpoints}] :
        /\ ~s.endpoints_given => s.endpoints = <<>>
        /\ s # NoStats }

Render == BodyArriveFrom(1, RenderSnapshots)

RenderNext ==
    \/ Render
    \/ Summary(1)

RenderSpec == ClassifyInit /\ [][RenderNext]_vars

(***************************************************************************)
(* Shorthands of the properties.                                           *)
(***************************************************************************)
StatusOutput(r) == outputs[r]["status"][1]

AllOutputsSet(r) == \A k \in OutputKeys : outputs[r][k] # <<>>

\* The run got no snapshot out of its health request.
HealthCallFailed(r) ==
    /\ pc[r] = "done"
    /\ inputs[r].apiKey # ""
    /\ stats[r] = NoStats

\* fail-on-unhealthy is enabled and the rate is below fail-threshold.
GateBreached(r) ==
    /\ inputs[r].failOnUnhealthy = "true"
    /\ stats[r].success_rate # Missing
    /\ stats[r].success_rate < parseFloat(inputs[r].failThreshold)

MarkerComments ==
    {i \in 1..Len(comments) :
        \E j \in DOMAIN comments[i].body.heading :
            comments[i].body.heading[j] = MARKER}

\* The run's publish step has completed: both of its calls resolved.
Published(r) ==
    /\ pc[r] \in {"summary", "done"}
    /\ Len(apiCalls[r]) = 2
    /\ failed[r].error # "HttpError"

(***************************************************************************)
(* C1.  On a numeric rate r and a DLQ count d >= 0 the status is healthy   *)
(* exactly when r >= 99 and d = 0, degraded exactly when 90 <= r < 99 or   *)
(* (r >= 99 and d > 0), unhealthy exactly when r < 90.                     *)
(***************************************************************************)
C1_StatusRule ==
    \A r \in Runs :
        (outputs[r]["status"] # <<>> /\ stats[r].dlq_count # Missing) =>
            LET sr == stats[r].success_rate
                d == stats[r].dlq_count
                st == StatusOutput(r)
            IN  /\ (st = "healthy") <=> (sr >= 99000 /\ d = 0)
                /\ (st = "degraded") <=>
                       ((90000 <= sr /\ sr < 99000) \/ (sr >= 99000 /\ d > 0))
                /\ (st = "unhealthy") <=> (sr < 90000)
                /\ st \in {"healthy", "degraded", "unhealthy"}

\* A rate of 100 with a nonzero DLQ count has been classified degraded.
C1_Witness ==
    \E r \in Runs :
        /\ outputs[r]["status"] = <<"degraded">>
        /\ stats[r].success_rate = 100000
        /\ stats[r].dlq_count > 0

(***************************************************************************)
(* C2.  With runs one after another, starting from no health comment and   *)
(* with unrelated comments added at any time, the pull request never holds *)
(* more than one comment with the marker, and once a run has published it  *)
(* holds exactly one, whose body is that run's report.                     *)
(***************************************************************************)
C2_OneHealthComment ==
    /\ Cardinality(MarkerComments) <= 1
    /\ \A r \in Runs :
        Published(r) =>
            \E i \in 1..Len(comments) :
                /\ MarkerComments = {i}
                /\ comments[i].body = generateReport(stats[r])

\* A later run has updated the health comment of an earlier one, which sits
\* between two unrelated comments.
C2_Witness ==
    \E r \in Runs :
        /\ Published(r)
        /\ apiCalls[r] = <<"listComments", "updateComment">>
        /\ Len(comments) = 3
        /\ MarkerComments = {2}
        /\ comments[2].body = generateReport(stats[r])

(***************************************************************************)
(* C3.  A run that called the comment API ends marked failed if and only   *)
(* if the threshold gate is breached, whether the calls resolved or not.   *)
(***************************************************************************)
C3_PublishFailureNotFatal ==
    \A r \in Runs :
        (pc[r] = "done" /\ apiCalls[r] # <<>>) =>
            ((failed[r] # NotFailed) <=> GateBreached(r))

(***************************************************************************)
(* C4.  A run whose health request fails (fetch rejected, timer fired,     *)
(* non-2xx response, body unreadable or no JSON) ends with no output set   *)
(* and marked failed with "Action failed: " and the error's message; when  *)
(* the failure is the non-2xx response whose text was read, the message    *)
(* holds the status code and that text.                                    *)
(***************************************************************************)
C4_HealthFailure ==
    \A r \in Runs :
        HealthCallFailed(r) =>
            /\ outputs[r] = NoOutputs
            /\ failed[r].prefix = "Action failed: "
            /\ failed[r].error \in {"fetch failed", "This operation was aborted",
                                    "API request failed: ", "terminated",
                                    "Unexpected token in JSON"}
            /\ (failed[r].error = "This operation was aborted") <=> (timer[r] = "fired")
            /\ (response[r].status # 0 /\ ~response[r].ok /\ response[r].text # "") =>
                   /\ failed[r].error = "API request failed: "
                   /\ failed[r].status = response[r].status
                   /\ failed[r].body = response[r].text
                   /\ failed[r].body \in ErrorBodies

\* A 500 with body "internal error" has failed the run.
C4_Witness ==
    \E r \in Runs :
        /\ HealthCallFailed(r)
        /\ response[r].status = 500
        /\ response[r].text = "internal error"
        /\ failed[r].body = "internal error"

(***************************************************************************)
(* C5.  A run that got a complete snapshot, with fail-on-unhealthy on and  *)
(* the rate below fail-threshold, ends marked failed with the message that *)
(* names the rate to two decimals and the threshold, all eight outputs set.*)
(***************************************************************************)
C5_GateFailure ==
    \A r \in Runs :
        (/\ pc[r] = "done"
         /\ stats[r] # NoStats
         /\ ~ReportThrows(stats[r])
         /\ GateBreached(r)) =>
            /\ failed[r] = BelowThreshold(stats[r].success_rate,
                                          parseFloat(inputs[r].failThreshold))
            /\ AllOutputsSet(r)

(***************************************************************************)
(* C6.  A run with an api-key, and with a complete snapshot if it got one, *)
(* ends marked failed only if its health call failed or the threshold gate *)
(* is breached.                                                            *)
(***************************************************************************)
C6_FailedOnlyIf ==
    \A r \in Runs :
        (/\ pc[r] = "done"
         /\ failed[r] # NotFailed
         /\ inputs[r].apiKey # ""
         /\ (stats[r] = NoStats \/ ~ReportThrows(stats[r]))) =>
            (HealthCallFailed(r) \/ GateBreached(r))

(***************************************************************************)
(* C7.  As claimed: a run without api-key, or with post-comment 'true' and *)
(* without github-token, ends marked failed with no output set (of the     *)
(* runs that got a snapshot, those with a complete one are looked at).     *)
(***************************************************************************)
C7_MissingConfigurationFatal ==
    \A r \in Runs :
        (/\ pc[r] = "done"
         /\ (stats[r] = NoStats \/ ~ReportThrows(stats[r]))
         /\ \/ inputs[r].apiKey = ""
            \/ (inputs[r].postComment = "true" /\ inputs[r].githubToken = "")) =>
            (failed[r] # NotFailed /\ outputs[r] = NoOutputs)

(***************************************************************************)
(* C7, amended.  A run without api-key ends marked failed with the input's *)
(* error, no output set and no request made.  A run with post-comment      *)
(* 'true' and without github-token that has set its eight outputs logs the *)
(* warning, calls no comment API and ends marked failed exactly when the   *)
(* threshold gate is breached.                                             *)
(***************************************************************************)
C7_MissingConfiguration ==
    \A r \in Runs :
        pc[r] = "done" =>
            /\ inputs[r].apiKey = "" =>
                   /\ failed[r] = ActionFailed("Input required and not supplied: api-key")
                   /\ outputs[r] = NoOutputs
                   /\ timer[r] = "unset"
                   /\ apiCalls[r] = <<>>
            /\ (/\ inputs[r].apiKey # ""
                /\ inputs[r].postComment = "true"
                /\ inputs[r].githubToken = ""
                /\ AllOutputsSet(r)) =>
                   /\ "github-token is required to post PR comments" \in warnings[r]
                   /\ apiCalls[r] = <<>>
                   /\ (failed[r] # NotFailed) <=> GateBreached(r)

\* A run with post-comment 'true' and no token has ended unfailed with its
\* eight outputs set and the warning logged.
C7_Witness ==
    \E r \in Runs :
        /\ pc[r] = "done"
        /\ inputs[r].postComment = "true"
        /\ inputs[r].githubToken = ""
        /\ context[r] = "pull_request"
        /\ AllOutputsSet(r)
        /\ failed[r] = NotFailed
        /\ warnings[r] # {}

(***************************************************************************)
(* C8.  A health call (request and reading of the body) is never pending   *)
(* after the 30000 ms of the timer.                                        *)
(***************************************************************************)
C8_BoundedByTimer ==
    \A r \in Runs :
        pc[r] \in {"fetch", "body"} => elapsed[r] <= timeout

(***************************************************************************)
(* C9.  No step of a run outside a pull request calls the comment API or   *)
(* changes the comments, and the step that sets the report output of such  *)
(* a run goes on to the job summary without marking the run failed.        *)
(***************************************************************************)
C9_NoOpOutsidePullRequest ==
    [][\A r \in Runs :
        (context'[r] # "pull_request" /\ pc'[r] # pc[r]) =>
            /\ apiCalls'[r] = <<>>
            /\ comments' = comments
            /\ pc'[r] \notin {"list", "update", "create"}
            /\ (outputs[r]["report"] = <<>> /\ outputs'[r]["report"] # <<>>) =>
                   (pc'[r] = "summary" /\ failed'[r] = NotFailed)
      ]_vars

\* A push-triggered run with post-comment 'true' and a token has ended, on a
\* pull request that has comments.
C9_Witness ==
    \E r \in Runs :
        /\ pc[r] = "done"
        /\ context[r] = "push"
        /\ inputs[r].postComment = "true"
        /\ inputs[r].githubToken = "token"
        /\ AllOutputsSet(r)
        /\ failed[r] = NotFailed
        /\ comments # <<>>

(***************************************************************************)
(* C10.  The listing step picks the first comment, in listing order, that  *)
(* contains the marker, or none if no comment does.  The write that        *)
(* follows either replaces the body of the picked comment by the report,   *)
(* creating none and leaving every other comment as it is, or, when none   *)
(* was picked, appends one comment with the report as body and leaves the  *)
(* others as they are.  No other step of a run changes the comments.       *)
(***************************************************************************)
FirstMarker ==
    IF MarkerComments = {} THEN 0
    ELSE CHOOSE i \in MarkerComments : \A j \in MarkerComments : i <= j

C10_OneWrite ==
    [][\A r \in Runs :
        /\ (pc[r] = "list" /\ pc'[r] = "update") =>
               (FirstMarker # 0 /\ botComment'[r] = comments[FirstMarker].id)
        /\ (pc[r] = "list" /\ pc'[r] = "create") =>
               (FirstMarker = 0 /\ botComment'[r] = 0)
        /\ (pc[r] = "update" /\ pc'[r] = "summary") =>
               /\ Len(comments') = Len(comments)
               /\ \A i \in 1..Len(comments) :
                      IF comments[i].id = botComment[r]
                      THEN comments'[i] = [id |-> comments[i].id,
                                           body |-> generateReport(stats[r])]
                      ELSE comments'[i] = comments[i]
               /\ \E i \in 1..Len(comments) : comments[i].id = botComment[r]
        /\ (pc[r] = "create" /\ pc'[r] = "summary") =>
               /\ botComment[r] = 0
               /\ Len(comments') = Len(comments) + 1
               /\ SubSeq(comments', 1, Len(comments)) = comments
               /\ comments'[Len(comments')].body = generateReport(stats[r])
        /\ (pc'[r] # pc[r] /\ ~(pc[r] \in {"update", "create"} /\ pc'[r] = "summary")) =>
               comments' = comments
      ]_vars

\* A run has replaced the first of two comments that contain the marker,
\* and the second, a quote, is as it was.
C10_Witness ==
    \E r \in Runs :
        /\ Published(r)
        /\ apiCalls[r] = <<"listComments", "updateComment">>
        /\ Cardinality(MarkerComments) = 2
        /\ comments[FirstMarker].body = generateReport(stats[r])
        /\ \E i \in MarkerComments : comments[i].body = QuoteBody

(***************************************************************************)
(* C11.  With two runs at once the pull request never holds more than two  *)
(* comments with the marker (two are reached: see the witness), and an     *)
(* update made while it holds two replaces the body of the first of them   *)
(* in listing order and leaves the second as it is.                        *)
(***************************************************************************)
LastMarker ==
    IF MarkerComments = {} THEN 0
    ELSE CHOOSE i \in MarkerComments : \A j \in MarkerComments : i >= j

C11_AtMostTwo ==
    /\ [](Cardinality(MarkerComments) <= 2)
    /\ [][\A r \in Runs :
            (/\ pc[r] = "update" /\ pc'[r] = "summary"
             /\ Cardinality(MarkerComments) = 2) =>
                /\ botComment[r] = comments[FirstMarker].id
                /\ comments'[FirstMarker].body = generateReport(stats[r])
                /\ comments'[LastMarker] = comments[LastMarker]
                /\ Len(comments') = Len(comments)
         ]_vars

\* Both runs listed before either wrote and each created a comment; a later
\* run has then updated the first of the two, whose bodies now differ.
C11_Witness ==
    \E r \in Runs :
        /\ Published(r)
        /\ apiCalls[r] = <<"listComments", "updateComment">>
        /\ Cardinality(MarkerComments) = 2
        /\ comments[FirstMarker].body = generateReport(stats[r])
        /\ comments[LastMarker].body # comments[FirstMarker].body

(***************************************************************************)
(* C12.  A run that got a snapshot with a numeric success_rate is not      *)
(* ended by an exception of the classifier or the renderer, whichever of   *)
(* the other fields are absent or null.                                    *)
(***************************************************************************)
C12_NeverThrows ==
    \A r \in Runs :
        (stats[r] # NoStats /\ stats[r].success_rate # Missing) =>
            failed[r].error # "Cannot read properties of undefined"

(***************************************************************************)
(* C13.  On a snapshot whose counts and rate are present the report is     *)
(* rendered: without endpoint table when endpoints is absent, null or      *)
(* empty; otherwise with one row per endpoint, whose rate cell is N/A      *)
(* exactly when the endpoint has no success_rate and is the rate rounded   *)
(* to two decimals when it has one.                                        *)
(***************************************************************************)
C13_OptionalFields ==
    \A r \in Runs :
        (/\ stats[r] # NoStats
         /\ stats[r].total_events # Missing
         /\ stats[r].delivered_events # Missing
         /\ stats[r].failed_events # Missing
         /\ stats[r].dlq_count # Missing
         /\ stats[r].success_rate # Missing) =>
            /\ failed[r].prefix # "Action failed: "
            /\ outputs[r]["report"] # <<>>
            /\ LET table == outputs[r]["report"][1].table
                   eps == stats[r].endpoints
               IN  /\ (~stats[r].endpoints_given \/ eps = <<>>) => table = <<>>
                   /\ Len(table) = Len(eps)
                   /\ \A i \in 1..Len(eps) :
                        /\ table[i].rate.na <=> (eps[i].success_rate = Missing)
                        /\ ~table[i].rate.na =>
                              100 * table[i].rate.fixed.whole + table[i].rate.fixed.frac
                                  = (eps[i].success_rate + 5) \div 10

\* A report has been rendered whose table shows 99.50 for one endpoint and
\* N/A for the other, from a snapshot without endpoints_count.
C13_Witness ==
    \E r \in Runs :
        /\ outputs[r]["report"] # <<>>
        /\ stats[r].endpoints_count = Missing
        /\ Len(outputs[r]["report"][1].table) = 2
        /\ outputs[r]["report"][1].table[1].rate = [na |-> FALSE,
                                                    fixed |-> [whole |-> 99, frac |-> 50]]
        /\ outputs[r]["report"][1].table[2].rate.na

(***************************************************************************)
(* C14.  An output key that has a value keeps it for as long as the run's  *)
(* process lives; no step of the publishing, failing or not, changes an    *)
(* output; and a run whose comment API call failed holds the eight outputs *)
(* of its snapshot, as a run whose publishing succeeded does.              *)
(***************************************************************************)
C14_WrittenOnce ==
    /\ [][\A r \in Runs :
            /\ \A k \in OutputKeys :
                 (outputs[r][k] # <<>> /\ pc'[r] # "idle") =>
                     outputs'[r][k] = outputs[r][k]
            /\ pc[r] \in {"list", "update", "create"} =>
                 outputs'[r] = outputs[r]
         ]_vars
    /\ [](\A r \in Runs :
            (failed[r].error = "HttpError" \/ Published(r)) =>
                outputs[r] = EightOutputs(stats[r]))

\* A run ended by a failed comment API call, with its eight outputs set.
C14_Witness ==
    \E r \in Runs :
        /\ pc[r] = "done"
        /\ failed[r].error = "HttpError"
        /\ apiCalls[r] # <<>>
        /\ AllOutputsSet(r)

(***************************************************************************)
(* C15 as stated.  No output is set before the publishing has been         *)
(* attempted: while a run is in its comment API calls, and before, it has  *)
(* set no output.                                                          *)
(***************************************************************************)
C15_OutputsAfterPublish ==
    \A r \in Runs :
        pc[r] \in {"idle", "fetch", "body", "list", "update", "create"} =>
            outputs[r] = NoOutputs

(***************************************************************************)
(* C15, amended.  Health fetch, then classification, the seven scalar      *)
(* outputs, rendering and the report output, then publishing, then the     *)
(* pass/fail decision: nothing is set while the fetch is pending; a run in *)
(* or past its publishing has a snapshot and all eight outputs and, until  *)
(* the gate, is not marked failed; the gate's failure comes last.          *)
(***************************************************************************)
C15_Order ==
    \A r \in Runs :
        /\ pc[r] \in {"idle", "fetch", "body"} =>
              /\ stats[r] = NoStats
              /\ outputs[r] = NoOutputs
              /\ apiCalls[r] = <<>>
              /\ failed[r] = NotFailed
        /\ pc[r] \in {"list", "update", "create", "summary"} =>
              /\ stats[r] # NoStats
              /\ AllOutputsSet(r)
              /\ failed[r] = NotFailed
        /\ apiCalls[r] # <<>> => AllOutputsSet(r)
        /\ failed[r].prefix = "Webhook health check failed: " =>
              /\ pc[r] = "done"
              /\ AllOutputsSet(r)

\* A run is in its first comment API call with all eight outputs set.
C15_Witness ==
    \E r \in Runs :
        /\ pc[r] = "list"
        /\ apiCalls[r] = <<"listComments">>
        /\ AllOutputsSet(r)

(***************************************************************************)
(* C16.  A finished run has set all eight outputs or none.                 *)
(***************************************************************************)
C16_AllOrNothing ==
    \A r \in Runs :
        pc[r] = "done" => (outputs[r] = NoOutputs \/ AllOutputsSet(r))

(***************************************************************************)
(* C17.  With fail-on-unhealthy 'true' and no fail-threshold given, a run  *)
(* that reached the gate is marked failed exactly when its status output   *)
(* is unhealthy, and a run with a rate of 99 or more is not marked failed  *)
(* whatever its DLQ count.                                                 *)
(***************************************************************************)
C17_GateIsUnhealthy ==
    \A r \in Runs :
        (/\ pc[r] = "done"
         /\ inputs[r].failOnUnhealthy = "true"
         /\ inputs[r].failThreshold = "") =>
            /\ (failed[r].prefix = "Webhook health check failed: ")
                  <=> (StatusOutput(r) = "unhealthy")
            /\ (failed[r] = NotFailed) <=> (StatusOutput(r) # "unhealthy")
            /\ (stats[r].success_rate >= 99000 /\ stats[r].dlq_count > 0) =>
                  /\ StatusOutput(r) = "degraded"
                  /\ failed[r] = NotFailed

\* A finished run under the default gate: rate 99.5, three events in the
\* DLQ, status degraded, not failed.
C17_Witness ==
    \E r \in Runs :
        /\ pc[r] = "done"
        /\ inputs[r].failOnUnhealthy = "true"
        /\ inputs[r].failThreshold = ""
        /\ stats[r].success_rate = 99500
        /\ stats[r].dlq_count = 3
        /\ StatusOutput(r) = "degraded"
        /\ failed[r] = NotFailed

====
